---- MODULE Spec2Model ----
(***************************************************************************)
(* Model of src/app.py: the eBrochure -> Carfax scraping run that starts   *)
(* when the "Start scraping" button is pressed (lines 83-294).             *)
(*                                                                         *)
(* Text is modelled as a sequence of tokens.  A token is a character or a  *)
(* fixed group of characters that the code only ever treats as a whole     *)
(* (the scheme prefix "https://", the prefix "www.", the formula head      *)
(* "=HYPERLINK(").  Identifiers (VINs) are sequences of single characters. *)
(* Durations are in tenths of a second.                                    *)
(***************************************************************************)
EXTENDS Integers, Sequences, FiniteSets, TLC

(***************************************************************************)
(* Bounds of the model.                                                    *)
(***************************************************************************)
\* Largest number of rows of the uploaded table (Spec).
MaxRows == 2
\* Longest raw cell text, in tokens, of the one-row runs (SpecWide).
MaxCellLen == 3

(***************************************************************************)
(* Tokens.                                                                 *)
(***************************************************************************)
SP == " "
SQ == "'"
DQ == "\""
HL == "=HYPERLINK("
RP == ")"
CM == ","
WWW == "www."
HTTPS == "https://"
FTP == "ftp://"
SLASH == "/"
HOSTCH == "x"

\* Python None / pandas NaN as a value of the text type: a one-token text
\* whose token occurs in no string, so it differs from every string, the
\* empty string <<>> included.
None == <<"None">>

\* str.strip() with no argument strips whitespace; strip("'\"") strips quotes.
Whitespace == {SP}
Quotes == {SQ, DQ}

\* Tokens that contain "://": the text before the ":" is a scheme name.
SchemeTokens == {HTTPS, FTP}
\* Tokens made only of characters allowed in a scheme name (letters, digits, "+-.").
SchemeCharTokens == {HOSTCH, WWW}

(***************************************************************************)
(* Sequence helpers.                                                       *)
(***************************************************************************)
RECURSIVE LStrip(_, _)
LStrip(s, chars) ==
    IF s # <<>> /\ Head(s) \in chars THEN LStrip(Tail(s), chars) ELSE s

RECURSIVE RStrip(_, _)
RStrip(s, chars) ==
    IF s # <<>> /\ s[Len(s)] \in chars
    THEN RStrip(SubSeq(s, 1, Len(s) - 1), chars)
    ELSE s

\* str.strip(chars): drops every leading and trailing character in chars.
StripChars(s, chars) == RStrip(LStrip(s, chars), chars)

\* Position of the first element of s at or after position from that lies in
\* set, or 0 when there is none.
RECURSIVE FindFirst(_, _, _)
FindFirst(s, set, from) ==
    IF from > Len(s) THEN 0
    ELSE IF s[from] \in set THEN from
    ELSE FindFirst(s, set, from + 1)

\* All token sequences over alphabet of length at most n.
SeqsUpTo(alphabet, n) == UNION { [1..k -> alphabet] : k \in 0..n }

(***************************************************************************)
(* hyperlink_pattern.fullmatch: =HYPERLINK\("([^"]+)"(?:,"[^"]*")?\)       *)
(* The head "=HYPERLINK(" is one token (re.IGNORECASE concerns its letters *)
(* only).  Returns group 1, or None when the whole text does not match.    *)
(***************************************************************************)
HyperlinkGroup(s) ==
    IF Len(s) >= 5 /\ s[1] = HL /\ s[2] = DQ
    THEN LET j == FindFirst(s, {DQ}, 3)
         IN  IF j <= 3 THEN None
             ELSE IF j + 1 = Len(s) /\ s[j + 1] = RP
                  THEN SubSeq(s, 3, j - 1)
             ELSE IF j + 3 <= Len(s) /\ s[j + 1] = CM /\ s[j + 2] = DQ
                  THEN LET k == FindFirst(s, {DQ}, j + 3)
                       IN  IF k > 0 /\ k + 1 = Len(s) /\ s[k + 1] = RP
                           THEN SubSeq(s, 3, j - 1)
                           ELSE None
             ELSE None
    ELSE None

(***************************************************************************)
(* Raw cells of the uploaded table.  kind "str": a text cell; kind "nan":  *)
(* an empty cell, which pandas.read_csv reads as NaN; kind "num": a number *)
(* whose str() is s.                                                       *)
(***************************************************************************)
NaNCell == [kind |-> "nan", s |-> <<>>]
StrCell(s) == [kind |-> "str", s |-> s]
NumCell(s) == [kind |-> "num", s |-> s]

\* normalize_url, lines 122-125: coercion to str, then strip().strip("'\"").
Cleaned(raw_value) ==
    LET text == IF raw_value.kind = "str" THEN raw_value.s
                ELSE IF raw_value.kind = "nan" THEN <<>>
                ELSE raw_value.s
    IN  StripChars(StripChars(text, Whitespace), Quotes)

\* normalize_url, lines 127-129: HYPERLINK unwrapping, group 1 re-stripped.
Unwrapped(raw_value) ==
    LET cleaned == Cleaned(raw_value)
        group == HyperlinkGroup(cleaned)
    IN  IF group # None THEN StripChars(group, Whitespace) ELSE cleaned

\* "www." prefix gets "https://" prepended.
WwwStarts(cleaned) == cleaned # <<>> /\ Head(cleaned) = WWW

normalize_url(raw_value) ==
    LET cleaned == Unwrapped(raw_value)
    IN  IF WwwStarts(cleaned) THEN <<HTTPS>> \o cleaned ELSE cleaned

(***************************************************************************)
(* urllib.parse.urlparse, as far as is_valid_url reads it (scheme and      *)
(* netloc).  urlsplit drops leading spaces, takes the text before the      *)
(* first ":" as the scheme when it is a well-formed scheme name, and, when *)
(* "//" follows, takes the netloc up to the next "/".                      *)
(***************************************************************************)
SchemeName(tok) == IF tok = HTTPS THEN "https" ELSE IF tok = FTP THEN "ftp" ELSE ""

urlparse(url) ==
    LET u == LStrip(url, Whitespace)
        p == FindFirst(u, SchemeTokens, 1)
        wellFormed == p > 0 /\ \A i \in 1..(p - 1) : u[i] \in SchemeCharTokens
    IN  IF ~wellFormed THEN [scheme |-> "", netloc |-> <<>>]
        ELSE LET rest == SubSeq(u, p + 1, Len(u))
                 stop == FindFirst(rest, {SLASH} \cup SchemeTokens, 1)
                 host == IF stop = 0 THEN rest
                         ELSE IF rest[stop] = SLASH THEN SubSeq(rest, 1, stop - 1)
                         ELSE SubSeq(rest, 1, stop - 1) \o <<SchemeName(rest[stop]), ":">>
             IN  [scheme |-> IF p = 1 THEN SchemeName(u[1]) ELSE "other",
                  netloc |-> host]

is_valid_urlMut(url) == urlparse(url).scheme # ""
is_valid_url(url) ==
    LET parsed == urlparse(url)
    IN  parsed.scheme \in {"http", "https"} /\ parsed.netloc # <<>>

(***************************************************************************)
(* Program constants.                                                      *)
(***************************************************************************)
\* fetch_ebrochure(url, retries=3, backoff=1.5); time.sleep(0.3).
Retries == 3
BackoffTenths == 15
PacingTenths == 3

(***************************************************************************)
(* Inputs: the uploaded table and what the network answers.                *)
(***************************************************************************)
\* Identifier cells: empty (NaN), and two texts that differ in one
\* character that is not alphanumeric.
VinCells == {NaNCell, StrCell(<<"A", "_">>), StrCell(<<"A", "#">>)}

\* eBrochure cells of the multi-row runs.
UrlCells == {NaNCell, StrCell(<<HTTPS, HOSTCH>>)}

\* eBrochure cells of the one-row runs: every text up to MaxCellLen tokens,
\* every such text wrapped in a HYPERLINK formula (with and without a
\* label), an empty cell and a numeric cell.
CellAlphabet == {SP, SQ, DQ, WWW, HTTPS, FTP, HOSTCH, SLASH}
PlainTexts == SeqsUpTo(CellAlphabet, MaxCellLen)
Formula(u, label) == <<HL, DQ>> \o u \o <<DQ>> \o label \o <<RP>>
WideCells ==
    {StrCell(s) : s \in PlainTexts \ {<<>>}}
    \cup {StrCell(Formula(u, l)) : u \in PlainTexts, l \in {<<>>, <<CM, DQ, HOSTCH, DQ>>}}
    \cup {NaNCell, NumCell(<<"1">>)}

Rows(vins, urls) == [vin : vins, url : urls]

\* What soup.find("a", class_="j-carfax-link") finds in a fetched page: no
\* such anchor, an anchor without href, or an anchor with an href text.
CarfaxHref == <<SP, HTTPS, "c">>
Pages ==
    {[anchor |-> FALSE, href |-> None], [anchor |-> TRUE, href |-> None]}
    \cup {[anchor |-> TRUE, href |-> h] : h \in {<<>>, <<SP>>, CarfaxHref}}

\* Exceptions of session.get / raise_for_status: a network error or a
\* non-2xx status.
FetchErrors == {<<"ConnectionError">>, <<"HTTPError 500">>}

\* Successful answers of the Carfax GET: declared content type and body.
Responses ==
    {[content_type |-> "application/pdf", content |-> "pdf-bytes"],
     [content_type |-> "text/html; charset=utf-8", content |-> "html-bytes"]}

(***************************************************************************)
(* State.                                                                  *)
(***************************************************************************)
VARIABLES
    df,                     \* the uploaded table, a sequence of rows
    download_carfax_files,  \* the checkbox
    pc,                     \* "loop", "fetch", "parse", "download", "done"
    idx,                    \* index (from 0) of the row being processed
    vin, ebrochure_url, carfax_url,   \* locals of the row loop
    attempt, last_exc,      \* locals of fetch_ebrochure
    resp,                   \* the page fetch_ebrochure returned
    results,                \* list of result dicts
    carfax_files,           \* dict vin -> (filename, bytes), in insertion order
    trace,                  \* GETs and sleeps of the row in progress or just finished
    merged,                 \* CARFAX_URL column of the enriched table
    zip_entries,            \* entries written to the ZIP, in order
    warning,                \* st.warning was shown
    documents,              \* per result, the bytes the Carfax GET returned (or NoBytes)
    outcomes,               \* per result, the branch of the row loop that recorded it
    df_columns,             \* the column names of the uploaded table, in order
    merged_frame            \* the enriched table: its column names and its rows

vars == <<df, download_carfax_files, pc, idx, vin, ebrochure_url, carfax_url,
          attempt, last_exc, resp, results, carfax_files, trace, merged,
          zip_entries, warning, documents, outcomes, df_columns, merged_frame>>

total == Len(df)

NoPage == [anchor |-> FALSE, href |-> None]
NoBytes == ""

\* Entries of trace: a GET with its outcome (Ok, or the exception raised),
\* or a time.sleep with its duration.
Ok == <<"ok">>
GetEvent(target, url, outcome) ==
    [op |-> "GET", target |-> target, url |-> url, outcome |-> outcome, tenths |-> 0]
SleepEvent(t) ==
    [op |-> "sleep", target |-> "", url |-> <<>>, outcome |-> <<>>, tenths |-> t]

\* A table: its column names in order, and per row a value for each name.
\* The values are texts; an empty cell (NaN) is None.
NoFrame == [columns |-> <<>>, rows |-> <<>>]

InitWith(tables, schemas) ==
    /\ df \in tables
    /\ df_columns \in schemas
    /\ download_carfax_files \in BOOLEAN
    /\ pc = "loop"
    /\ idx = 0
    /\ vin = None /\ ebrochure_url = None /\ carfax_url = None
    /\ attempt = 0 /\ last_exc = None
    /\ resp = NoPage
    /\ results = <<>>
    /\ carfax_files = <<>>
    /\ trace = <<>>
    /\ merged = <<>>
    /\ zip_entries = <<>>
    /\ warning = FALSE
    /\ documents = <<>>
    /\ outcomes = <<>>
    /\ merged_frame = NoFrame

\* df.empty stops the script before the button: tables have at least one row.
Tables == UNION { [1..n -> Rows(VinCells, UrlCells)] : n \in 1..MaxRows }
WideTables == [1..1 -> Rows({StrCell(<<"A", "_">>)}, WideCells)]

\* The two selected columns (vin_col, ebrochure_col) and one more column,
\* every cell of which holds OtherText.
VinCol == "VIN"
EbrochureCol == "EBROCHURE"
OtherText == <<"s">>
PlainSchema == <<VinCol, EbrochureCol, "STOCK">>
\* An upload that already has a column named like the one line 265 assigns.
Schemas == {PlainSchema, <<VinCol, EbrochureCol, "CARFAX_URL">>}

Init == InitWith(Tables, {PlainSchema})
InitWide == InitWith(WideTables, {PlainSchema})
InitSchema == InitWith(Tables, Schemas)
\* Tables of up to MaxRows rows that all carry the same identifier.
OneVinTables == UNION { [1..n -> Rows({StrCell(<<"A", "_">>)}, UrlCells)] : n \in 1..MaxRows }
InitOneVin == InitWith(OneVinTables, {PlainSchema})

(***************************************************************************)
(* The row loop, lines 143-244.                                            *)
(***************************************************************************)
\* str() / astype(str) of an identifier cell.
StrOf(cell) == IF cell.kind = "nan" THEN <<"n", "a", "n">> ELSE cell.s

\* Line 145.
RowVin(row, i) ==
    IF row.vin.kind # "nan" THEN StrOf(row.vin) ELSE <<"r", "o", "w", "_", ToString(i)>>

Result(v, u, c, status, error, file) ==
    [VIN |-> v, EBROCHURE_URL |-> u, CARFAX_URL |-> c, STATUS |-> status,
     ERROR_MESSAGE |-> error, FILE_NAME |-> file]

\* Lines 156-165.  The dict has no FILE_NAME key: NaN in results_df.
InvalidResult(v, u) == Result(v, u, None, "ERROR", <<"Invalid eBrochure URL">>, None)

\* The locals of fetch_ebrochure and the page are dead once a row is done.
EndRow ==
    /\ idx' = idx + 1
    /\ pc' = "loop"
    /\ attempt' = 0 /\ last_exc' = None /\ resp' = NoPage

\* Lines 143-166: a row whose normalized URL fails the sanity check.
InvalidRow ==
    /\ pc = "loop" /\ idx < total
    /\ \E v \in {RowVin(df[idx + 1], idx)}, u \in {normalize_url(df[idx + 1].url)} :
           /\ ~is_valid_url(u)
           /\ vin' = v /\ ebrochure_url' = u /\ carfax_url' = None
           /\ results' = Append(results, InvalidResult(v, u))
    /\ documents' = Append(documents, NoBytes)
    /\ outcomes' = Append(outcomes, "invalid")
    /\ trace' = <<>>
    /\ EndRow
    /\ UNCHANGED <<df_columns, merged_frame, df, download_carfax_files, carfax_files, merged, zip_entries, warning>>

\* Lines 143-170: a row that passes the check enters fetch_ebrochure.
BeginFetch ==
    /\ pc = "loop" /\ idx < total
    /\ \E v \in {RowVin(df[idx + 1], idx)}, u \in {normalize_url(df[idx + 1].url)} :
           /\ is_valid_url(u)
           /\ vin' = v /\ ebrochure_url' = u /\ carfax_url' = None
    /\ trace' = <<>>
    /\ pc' = "fetch" /\ attempt' = 1 /\ last_exc' = None
    /\ UNCHANGED <<df_columns, outcomes, merged_frame, df, download_carfax_files, idx, resp, results, carfax_files,
                   merged, zip_entries, warning, documents>>

(***************************************************************************)
(* fetch_ebrochure, lines 99-117.                                          *)
(***************************************************************************)
\* Line 110.
LastAttempt(n) == n = Retries

\* Line 113, in tenths of a second.
BackoffDelayMut(n) == BackoffTenths
BackoffDelay(n) == BackoffTenths * n

\* Line 109.
CaughtMut(old, exc) == IF old = None THEN exc ELSE old
Caught(old, exc) == exc

\* Lines 115-117, the text of the RuntimeError.
FetchFailureText(exc) ==
    <<"Failed to fetch eBrochure after ", ToString(Retries), " attempts: ">> \o exc

\* Lines 234-244: the outer except turns the exception into a result.
ErrorResult(v, u, text) == Result(v, u, None, "ERROR", text, None)

\* Lines 105-107: the GET succeeds and the response is returned.
FetchOk(page) ==
    /\ pc = "fetch"
    /\ trace' = Append(trace, GetEvent("ebrochure", ebrochure_url, Ok))
    /\ resp' = page
    /\ pc' = "parse"
    /\ attempt' = 0 /\ last_exc' = None
    /\ UNCHANGED <<df_columns, outcomes, merged_frame, df, download_carfax_files, idx, vin, ebrochure_url, carfax_url,
                   results, carfax_files, merged, zip_entries, warning, documents>>

FetchRetryMut(exc) ==
    /\ pc = "fetch" /\ ~LastAttempt(attempt)
    /\ trace' = trace \o <<GetEvent("ebrochure", ebrochure_url, exc),
                           SleepEvent(BackoffDelay(attempt))>>
    /\ last_exc' = Caught(last_exc, exc)
    /\ attempt' = attempt
    /\ UNCHANGED <<df_columns, outcomes, merged_frame, df, download_carfax_files, pc, idx, vin, ebrochure_url, carfax_url,
                   resp, results, carfax_files, merged, zip_entries, warning, documents>>
\* Lines 108-113: the GET fails and attempts remain: sleep, next attempt.
FetchRetry(exc) ==
    /\ pc = "fetch" /\ ~LastAttempt(attempt)
    /\ trace' = trace \o <<GetEvent("ebrochure", ebrochure_url, exc),
                           SleepEvent(BackoffDelay(attempt))>>
    /\ last_exc' = Caught(last_exc, exc)
    /\ attempt' = attempt + 1
    /\ UNCHANGED <<df_columns, outcomes, merged_frame, df, download_carfax_files, pc, idx, vin, ebrochure_url, carfax_url,
                   resp, results, carfax_files, merged, zip_entries, warning, documents>>

\* The last GET fails and the RuntimeError stops the script.
FetchExhaustedMut(exc) ==
    /\ pc = "fetch" /\ LastAttempt(attempt)
    /\ trace' = Append(trace, GetEvent("ebrochure", ebrochure_url, exc))
    /\ pc' = "done"
    /\ UNCHANGED <<df_columns, outcomes, merged_frame, df, download_carfax_files, idx, vin, ebrochure_url, carfax_url,
                   attempt, last_exc, resp, results, carfax_files, merged,
                   zip_entries, warning, documents>>

\* Lines 108-117 and 234-244: the last GET fails; the RuntimeError reaches
\* the outer except, which records the row and goes on to the next one.
FetchExhausted(exc) ==
    /\ pc = "fetch" /\ LastAttempt(attempt)
    /\ trace' = Append(trace, GetEvent("ebrochure", ebrochure_url, exc))
    /\ results' = Append(results,
                     ErrorResult(vin, ebrochure_url, FetchFailureText(Caught(last_exc, exc))))
    /\ documents' = Append(documents, NoBytes)
    /\ outcomes' = Append(outcomes, "fetch_failed")
    /\ EndRow
    /\ UNCHANGED <<df_columns, merged_frame, df, download_carfax_files, vin, ebrochure_url, carfax_url,
                   carfax_files, merged, zip_entries, warning>>

(***************************************************************************)
(* Anchor lookup and download, lines 172-232.                              *)
(***************************************************************************)
\* Line 176: not tag or not tag.get("href").
NoLinkMut(page) == ~page.anchor
NoLink(page) == ~page.anchor \/ page.href = None \/ page.href = <<>>

NoLinkResult(v, u) ==
    Result(v, u, None, "NO_CARFAX_LINK", <<"No j-carfax-link anchor found">>, None)

\* Lines 176-187.
NoCarfaxLink ==
    /\ pc = "parse" /\ NoLink(resp)
    /\ results' = Append(results, NoLinkResult(vin, ebrochure_url))
    /\ documents' = Append(documents, NoBytes)
    /\ outcomes' = Append(outcomes, "no_link")
    /\ EndRow
    /\ UNCHANGED <<df_columns, merged_frame, df, download_carfax_files, vin, ebrochure_url, carfax_url,
                   carfax_files, trace, merged, zip_entries, warning>>

\* Line 189.
HrefTarget(page) == StripChars(page.href, Whitespace)

\* Line 192.
DownloadWantedMut(flag) == TRUE
DownloadWanted(flag) == flag

\* Lines 189, 217-232: link found, downloads not requested.
UrlOnly ==
    /\ pc = "parse" /\ ~NoLink(resp) /\ ~DownloadWanted(download_carfax_files)
    /\ carfax_url' = HrefTarget(resp)
    /\ results' = Append(results,
                     Result(vin, ebrochure_url, HrefTarget(resp), "OK_URL_ONLY", None, None))
    /\ documents' = Append(documents, NoBytes)
    /\ outcomes' = Append(outcomes, "url_only")
    /\ trace' = Append(trace, SleepEvent(PacingTenths))
    /\ EndRow
    /\ UNCHANGED <<df_columns, merged_frame, df, download_carfax_files, vin, ebrochure_url, carfax_files,
                   merged, zip_entries, warning>>

\* Lines 189-193: link found, downloads requested.
BeginDownload ==
    /\ pc = "parse" /\ ~NoLink(resp) /\ DownloadWanted(download_carfax_files)
    /\ carfax_url' = HrefTarget(resp)
    /\ pc' = "download"
    /\ UNCHANGED <<df_columns, outcomes, merged_frame, df, download_carfax_files, idx, vin, ebrochure_url, attempt, last_exc,
                   resp, results, carfax_files, trace, merged, zip_entries, warning,
                   documents>>

\* requests refuses a URL without scheme or host (MissingSchema, InvalidURL)
\* before anything is sent.
Sendable(url) ==
    LET parsed == urlparse(url)
    IN  parsed.scheme \in {"http", "https"} /\ parsed.netloc # <<>>

\* Lines 197-202.
Extension(content_type) ==
    IF content_type \in {"application/pdf"} THEN ".pdf" ELSE ".html"

\* Lines 204-207: str.isalnum() of the characters identifiers are made of.
IsAlnum(ch) == ch \in {"A", "r", "o", "w", "n", "a", "0", "1", "2", "3"}
SafeChar(ch) == IF IsAlnum(ch) \/ ch \in {"-", "_"} THEN ch ELSE "_"
safe_vin(v) == [i \in 1..Len(v) |-> SafeChar(v[i])]

FilenameMut(v, ext) == v \o <<ext>>
\* Line 208.
Filename(v, ext) == safe_vin(v) \o <<ext>>

\* Position of key in the dict d (a sequence of entries), or 0.
RECURSIVE DictFind(_, _, _)
DictFind(d, key, from) ==
    IF from > Len(d) THEN 0
    ELSE IF d[from].vin = key THEN from
    ELSE DictFind(d, key, from + 1)

\* Line 210: d[key] = value; an existing key keeps its place.
DictSetMut(d, key, filename, content) ==
    IF DictFind(d, key, 1) = 0
    THEN Append(d, [vin |-> key, filename |-> filename, content |-> content])
    ELSE d
DictSet(d, key, filename, content) ==
    LET at == DictFind(d, key, 1)
        entry == [vin |-> key, filename |-> filename, content |-> content]
    IN  IF at = 0 THEN Append(d, entry) ELSE [d EXCEPT ![at] = entry]

\* Lines 194-212, 220-232: the Carfax GET succeeds.
DownloadOk(r) ==
    /\ pc = "download" /\ Sendable(carfax_url)
    /\ LET filename == Filename(vin, Extension(r.content_type))
       IN  /\ carfax_files' = DictSet(carfax_files, vin, filename, r.content)
           /\ results' = Append(results,
                 Result(vin, ebrochure_url, carfax_url, "OK_DOWNLOADED", None, filename))
    /\ documents' = Append(documents, r.content)
    /\ outcomes' = Append(outcomes, "downloaded")
    /\ trace' = trace \o <<GetEvent("carfax", carfax_url, Ok), SleepEvent(PacingTenths)>>
    /\ EndRow
    /\ UNCHANGED <<df_columns, merged_frame, df, download_carfax_files, vin, ebrochure_url, carfax_url,
                   merged, zip_entries, warning>>

\* Lines 213-215.
DownloadErrorText(exc) == <<"Carfax download error: ">> \o exc

DownloadFailedResultMut(v, u, c, exc) ==
    Result(v, u, None, "ERROR", DownloadErrorText(exc), None)
DownloadFailedResult(v, u, c, exc) ==
    Result(v, u, c, "URL_ONLY", DownloadErrorText(exc), None)

DownloadFailedMut(exc) ==
    /\ pc = "download"
    /\ IF Sendable(carfax_url) THEN exc \in FetchErrors ELSE exc = <<"MissingSchema">>
    /\ results' = Append(results, DownloadFailedResult(vin, ebrochure_url, carfax_url, exc))
    /\ documents' = Append(documents, NoBytes)
    /\ outcomes' = Append(outcomes, "download_failed")
    /\ trace' = trace \o <<GetEvent("carfax", carfax_url, exc),
                          GetEvent("carfax", carfax_url, exc), SleepEvent(PacingTenths)>>
    /\ EndRow
    /\ UNCHANGED <<df_columns, merged_frame, df, download_carfax_files, vin, ebrochure_url, carfax_url,
                   carfax_files, merged, zip_entries, warning>>
\* Lines 194-195, 213-232: the Carfax GET fails.
DownloadFailed(exc) ==
    /\ pc = "download"
    /\ IF Sendable(carfax_url) THEN exc \in FetchErrors ELSE exc = <<"MissingSchema">>
    /\ results' = Append(results, DownloadFailedResult(vin, ebrochure_url, carfax_url, exc))
    /\ documents' = Append(documents, NoBytes)
    /\ outcomes' = Append(outcomes, "download_failed")
    /\ trace' = trace \o <<GetEvent("carfax", carfax_url, exc), SleepEvent(PacingTenths)>>
    /\ EndRow
    /\ UNCHANGED <<df_columns, merged_frame, df, download_carfax_files, vin, ebrochure_url, carfax_url,
                   carfax_files, merged, zip_entries, warning>>

(***************************************************************************)
(* Outputs, lines 246-294.                                                 *)
(***************************************************************************)
\* Position of the first result whose VIN is key, or 0.
RECURSIVE FirstResult(_, _, _)
FirstResult(rs, key, from) ==
    IF from > Len(rs) THEN 0
    ELSE IF rs[from].VIN = key THEN from
    ELSE FirstResult(rs, key, from + 1)

\* Lines 257-263: drop_duplicates keeps the first row per VIN.
carfax_lookup(rs, key) ==
    LET at == FirstResult(rs, key, 1)
    IN  IF at = 0 THEN None ELSE rs[at].CARFAX_URL

\* Line 265: merged[vin_col].astype(str).map(carfax_lookup).
MergedColumn(table, rs) == [i \in 1..Len(table) |-> carfax_lookup(rs, StrOf(table[i].vin))]

ColumnNames(frame) == {frame.columns[k] : k \in 1..Len(frame.columns)}

CellText(cell) == IF cell.kind = "nan" THEN None ELSE cell.s

\* The uploaded table as a frame.
DfFrame(table, columns) ==
    [columns |-> columns,
     rows |-> [i \in 1..Len(table) |->
                  [c \in {columns[k] : k \in 1..Len(columns)} |->
                      IF c = VinCol THEN CellText(table[i].vin)
                      ELSE IF c = EbrochureCol THEN CellText(table[i].url)
                      ELSE OtherText]]]

\* frame[name] = column: a new name is appended as the last column, an
\* existing name keeps its place and has its values replaced.
SetColumn(frame, name, column) ==
    [columns |-> IF name \in ColumnNames(frame) THEN frame.columns
                 ELSE Append(frame.columns, name),
     rows |-> [i \in 1..Len(frame.rows) |->
                  [c \in ColumnNames(frame) \cup {name} |->
                      IF c = name THEN column[i] ELSE frame.rows[i][c]]]]

\* Lines 255 and 265: merged = df.copy(); merged["CARFAX_URL"] = ...
Merged(table, columns, rs) ==
    SetColumn(DfFrame(table, columns), "CARFAX_URL", MergedColumn(table, rs))

\* Lines 280-284.
ZipEntries(files) == [i \in 1..Len(files) |-> [filename |-> files[i].filename,
                                                content |-> files[i].content]]

\* Lines 246-294: the loop is over; the tables and the ZIP are built.
Finish ==
    /\ pc = "loop" /\ idx = total
    /\ merged' = MergedColumn(df, results)
    /\ merged_frame' = Merged(df, df_columns, results)
    /\ zip_entries' = IF download_carfax_files /\ carfax_files # <<>>
                      THEN ZipEntries(carfax_files) ELSE <<>>
    /\ warning' = (download_carfax_files /\ carfax_files = <<>>)
    /\ pc' = "done"
    /\ UNCHANGED <<df_columns, outcomes, df, download_carfax_files, idx, vin, ebrochure_url, carfax_url,
                   attempt, last_exc, resp, results, carfax_files, trace, documents>>

Next ==
    \/ InvalidRow
    \/ BeginFetch
    \/ \E page \in Pages : FetchOk(page)
    \/ \E exc \in FetchErrors : FetchRetry(exc)
    \/ \E exc \in FetchErrors : FetchExhausted(exc)
    \/ NoCarfaxLink
    \/ UrlOnly
    \/ BeginDownload
    \/ \E r \in Responses : DownloadOk(r)
    \/ \E exc \in FetchErrors \cup {<<"MissingSchema">>} : DownloadFailed(exc)
    \/ Finish

\* Runs over tables of up to MaxRows rows.
Spec == Init /\ [][Next]_vars

\* Runs over one-row tables whose eBrochure cell ranges over WideCells.
SpecWide == InitWide /\ [][Next]_vars

\* The script runs top to bottom: a step that can be taken is taken.  Every
\* request has timeout=30, so each GET ends, with a response or an exception.
FairSpec == InitOneVin /\ [][Next]_vars /\ WF_vars(Next)

\* Runs over tables of up to MaxRows rows and over the column names of Schemas.
SpecSchema == InitSchema /\ [][Next]_vars

(***************************************************************************)
(* Vocabulary of the properties.                                           *)
(*                                                                         *)
(* The statuses of the specification and the values the code reports:      *)
(*   INVALID_URL     STATUS "ERROR", ERROR_MESSAGE "Invalid eBrochure URL" *)
(*   RESOLVER_ERROR  STATUS "ERROR", ERROR_MESSAGE "Failed to fetch ..."   *)
(*   NO_TARGET_LINK  STATUS "NO_CARFAX_LINK"                               *)
(*   URL_ONLY        STATUS "OK_URL_ONLY"                                  *)
(*   DOWNLOADED      STATUS "OK_DOWNLOADED"                                *)
(*   DOWNLOAD_FAILED STATUS "URL_ONLY"                                     *)
(***************************************************************************)
\* No row is in progress: trace holds the events of the row recorded last.
BetweenRows == pc \in {"loop", "done"}
LastResultRecorded == results[Len(results)]

IsPrimaryGet(ev) == ev.op = "GET" /\ ev.target = "ebrochure"
IsCarfaxGet(ev) == ev.op = "GET" /\ ev.target = "carfax"
IsInvalidUrlResult(r) ==
    /\ r.STATUS = "ERROR"
    /\ r.ERROR_MESSAGE = <<"Invalid eBrochure URL">>
    /\ r.CARFAX_URL = None

HasHttpScheme(text) == urlparse(text).scheme \in {"http", "https"}
BeginsWithWww(text) == Len(text) > 0 /\ text[1] = "www."

\* Row i (from 1) is classified INVALID_URL, is terminal, and no request is
\* ever made for it: it never enters the fetch, and once it is recorded its
\* trace is empty.
RejectedWithoutNetwork(i) ==
    /\ i <= Len(results) => IsInvalidUrlResult(results[i])
    /\ i = idx + 1 => pc = "loop"
    /\ (i = Len(results) /\ BetweenRows) => trace = <<>>

\* C1 as stated: every record whose source-URL cell is empty, non-string, or
\* has no http/https scheme and does not begin with "www." is classified
\* INVALID_URL, is terminal, and causes no network call.
C1_AsStated ==
    \A i \in 1..Len(df) :
        LET cell == df[i].url
        IN  (\/ cell.kind # "str"
             \/ cell.s = <<>>
             \/ ~HasHttpScheme(cell.s) /\ ~BeginsWithWww(cell.s))
            => RejectedWithoutNetwork(i)

\* C1 as amended: every record whose source-URL cell is empty, non-string,
\* or whose text, after trimming whitespace, stripping enclosing quotes and
\* unwrapping a HYPERLINK formula, is empty or has no http/https scheme and
\* does not begin with "www.", is classified INVALID_URL, is terminal, and
\* causes no network call.
C1_InvalidUrlNoNetwork ==
    \A i \in 1..Len(df) :
        LET cell == df[i].url
            text == Unwrapped(cell)
        IN  (\/ cell.kind # "str"
             \/ text = <<>>
             \/ ~HasHttpScheme(text) /\ ~BeginsWithWww(text))
            => RejectedWithoutNetwork(i)

\* A run that has rejected a HYPERLINK formula whose URL has the scheme ftp.
C1_Witness ==
    /\ pc = "done"
    /\ df[1].url.kind = "str"
    /\ HyperlinkGroup(df[1].url.s) # None
    /\ Unwrapped(df[1].url) = <<"ftp://", "x">>
    /\ IsInvalidUrlResult(results[1])
    /\ trace = <<>>

\* Positions of trace holding a primary GET that succeeded / failed.
PrimaryOk == {j \in DOMAIN trace : IsPrimaryGet(trace[j]) /\ trace[j].outcome = Ok}
PrimaryFailed == {j \in DOMAIN trace : IsPrimaryGet(trace[j]) /\ trace[j].outcome # Ok}

\* What may follow the fetch in a row's trace: nothing, the pacing sleep, or
\* one Carfax GET and the pacing sleep.
AfterFetch(rest) ==
    \/ rest = <<>>
    \/ rest = <<SleepEvent(PacingTenths)>>
    \/ Len(rest) = 2 /\ IsCarfaxGet(rest[1]) /\ rest[2] = SleepEvent(PacingTenths)

\* C2: the primary fetch makes at most Retries attempts and stops at the
\* first success.  When the k-th GET succeeds, the fetch consists of exactly
\* k GETs, the first k-1 failed, with a sleep of backoff*j after the j-th
\* failure (failing twice then succeeding: 3 GETs, sleeps 1.5 s and 3.0 s),
\* and neither a primary GET nor a backoff sleep follows the success.
C2_RetryStopsAtSuccess ==
    /\ Cardinality(PrimaryOk \cup PrimaryFailed) <= Retries
    /\ \A p \in PrimaryOk :
          /\ p = 2 * Cardinality(PrimaryFailed) + 1
          /\ \A j \in 1..(p - 1) :
                IF j % 2 = 1
                THEN IsPrimaryGet(trace[j]) /\ trace[j].outcome # Ok
                ELSE trace[j] = SleepEvent(BackoffTenths * (j \div 2))
          /\ AfterFetch(SubSeq(trace, p + 1, Len(trace)))

\* The third GET succeeded after two failures.
C2_Witness ==
    /\ pc = "parse"
    /\ Len(trace) = 5
    /\ trace[1].outcome # Ok /\ trace[3].outcome # Ok /\ trace[5].outcome = Ok
    /\ trace[2].tenths = 15 /\ trace[4].tenths = 30

\* C3: when all Retries attempts of the primary fetch fail, the row's trace
\* ends with the last failed GET (no sleep after it, no Carfax GET), and
\* the row is recorded at once as a resolver error whose message carries
\* the exception of the last attempt, with CARFAX_URL None.
C3_ExhaustionIsResolverError ==
    Cardinality(PrimaryFailed) >= Retries =>
        /\ BetweenRows
        /\ Len(trace) = 2 * Retries - 1
        /\ IsPrimaryGet(trace[Len(trace)])
        /\ \A j \in DOMAIN trace : ~IsCarfaxGet(trace[j])
        /\ Len(results) = idx
        /\ LET r == LastResultRecorded
           IN  /\ r.STATUS = "ERROR"
               /\ r.ERROR_MESSAGE =
                     <<"Failed to fetch eBrochure after ", "3", " attempts: ">>
                        \o trace[Len(trace)].outcome
               /\ r.CARFAX_URL = None
               /\ r.FILE_NAME = None
               /\ r.VIN = vin /\ r.EBROCHURE_URL = ebrochure_url

\* Three attempts failed, the last with another exception than the first.
C3_Witness ==
    /\ pc = "loop"
    /\ Cardinality(PrimaryFailed) = Retries
    /\ trace[1].outcome # trace[Len(trace)].outcome
    /\ LastResultRecorded.STATUS = "ERROR"

\* C4: when the primary fetch has succeeded and the page has no anchor with
\* the class marker, or that anchor has no href, the row is recorded at
\* once with the non-error status NO_CARFAX_LINK and CARFAX_URL None, and
\* no Carfax GET is made (the row's trace stays as the fetch left it).
C4_NoAnchorIsNoTargetLink ==
    [][(pc = "parse" /\ (~resp.anchor \/ resp.href = None)) =>
          /\ Len(results') = Len(results) + 1
          /\ results'[Len(results')].STATUS = "NO_CARFAX_LINK"
          /\ results'[Len(results')].STATUS # "ERROR"
          /\ results'[Len(results')].CARFAX_URL = None
          /\ results'[Len(results')].VIN = vin
          /\ SubSeq(results', 1, Len(results)) = results
          /\ trace' = trace
          /\ pc' = "loop" /\ idx' = idx + 1]_vars

\* A row recorded NO_CARFAX_LINK after one successful GET and nothing else.
C4_Witness ==
    /\ pc = "loop" /\ Len(results) > 0
    /\ LastResultRecorded.STATUS = "NO_CARFAX_LINK"
    /\ Len(trace) = 1 /\ trace[1].outcome = Ok

\* C5: when a target was found and downloads are requested, a failing
\* Carfax GET records the row with status URL_ONLY (the code's download-
\* failed status, which is not the OK_URL_ONLY of a run without downloads),
\* CARFAX_URL the target extracted from the page, FILE_NAME None and an
\* ERROR_MESSAGE that carries the exception; carfax_files is left as it was.
C5_DownloadFailureKeepsUrl ==
    [][(pc = "download" /\ pc' # "download"
        /\ trace'[Len(trace) + 1].outcome # Ok) =>
          /\ download_carfax_files
          /\ IsCarfaxGet(trace'[Len(trace) + 1])
          /\ Len(results') = Len(results) + 1
          /\ SubSeq(results', 1, Len(results)) = results
          /\ LET r == results'[Len(results')]
             IN  /\ r.STATUS = "URL_ONLY"
                 /\ r.STATUS # "OK_URL_ONLY"
                 /\ r.CARFAX_URL = StripChars(resp.href, {" "})
                 /\ r.CARFAX_URL # None
                 /\ r.FILE_NAME = None
                 /\ r.ERROR_MESSAGE =
                       <<"Carfax download error: ">> \o trace'[Len(trace) + 1].outcome
                 /\ r.VIN = vin
          /\ carfax_files' = carfax_files]_vars

\* A row whose download failed after an earlier row's download succeeded.
C5_Witness ==
    /\ pc = "loop" /\ Len(results) = 2
    /\ results[1].STATUS = "OK_DOWNLOADED"
    /\ results[2].STATUS = "URL_ONLY"
    /\ results[2].CARFAX_URL = <<"https://", "c">>
    /\ Len(carfax_files) = 1

\* C6: no outcome aborts the run.  The run is over only once the outputs
\* are built, and then there is exactly one result per input row; at every
\* point the results recorded so far are those of the first rows, one per
\* row and in input order, whatever their outcomes; a row is in progress
\* only when all rows before it are recorded.
C6_FailureIsolation ==
    /\ pc \in {"loop", "fetch", "parse", "download", "done"}
    /\ Len(results) = idx
    /\ idx <= Len(df)
    /\ pc \in {"fetch", "parse", "download"} => idx < Len(df)
    /\ \A i \in 1..Len(results) :
          /\ results[i].VIN =
                (IF df[i].vin.kind = "nan"
                 THEN <<"r", "o", "w", "_", ToString(i - 1)>> ELSE df[i].vin.s)
          /\ results[i].EBROCHURE_URL = normalize_url(df[i].url)
    /\ pc = "done" => Len(results) = Len(df)

\* A finished run in which a row was processed after an earlier row's fetch
\* had failed for good.
C6_Witness ==
    /\ pc = "done" /\ Len(results) = 2
    /\ results[1].STATUS = "ERROR"
    /\ results[1].ERROR_MESSAGE # <<"Invalid eBrochure URL">>
    /\ results[2].STATUS = "OK_DOWNLOADED"

\* Position of the earliest result recorded under the identifier of row i.
EarliestOfRow(i) ==
    CHOOSE j \in 1..Len(results) :
        /\ results[j].VIN = results[i].VIN
        /\ \A k \in 1..(j - 1) : results[k].VIN # results[i].VIN

\* C7: in the enriched table, the CARFAX_URL cell of every row equals the
\* CARFAX_URL of the earliest result recorded under that row's identifier.
C7_FirstSeenLookup ==
    pc = "done" =>
        \A i \in 1..Len(df) : merged[i] = results[EarliestOfRow(i)].CARFAX_URL

TargetFound == {"OK_URL_ONLY", "OK_DOWNLOADED", "URL_ONLY"}

\* C8: when all rows have distinct identifiers, the CARFAX_URL cell of a row
\* of the enriched table is populated exactly when the row's record has a
\* target-found status, and then holds that record's CARFAX_URL; rows that
\* ended otherwise have an empty cell.
C8_PopulatedIffTargetFound ==
    (/\ pc = "done"
     /\ \A i, j \in 1..Len(results) : i # j => results[i].VIN # results[j].VIN)
    => \A i \in 1..Len(df) :
          IF results[i].STATUS \in TargetFound
          THEN merged[i] = results[i].CARFAX_URL /\ merged[i] \notin {None, <<>>}
          ELSE merged[i] = None

\* C9: at every point of a run every entry of carfax_files, and every entry
\* written to the ZIP, belongs to a record with status OK_DOWNLOADED and
\* carries that record's file name; with downloads disabled carfax_files
\* and the ZIP stay empty and no Carfax GET is made.
C9_ArchiveOnlyDownloaded ==
    /\ \A k \in 1..Len(carfax_files) :
          \E i \in 1..Len(results) :
              /\ results[i].VIN = carfax_files[k].vin
              /\ results[i].STATUS = "OK_DOWNLOADED"
              /\ results[i].FILE_NAME = carfax_files[k].filename
    /\ \A k \in 1..Len(zip_entries) :
          \E i \in 1..Len(results) :
              /\ results[i].STATUS = "OK_DOWNLOADED"
              /\ results[i].FILE_NAME = zip_entries[k].filename
              /\ documents[i] = zip_entries[k].content
    /\ \A i \in 1..Len(results) :
          results[i].STATUS # "OK_DOWNLOADED" => documents[i] = NoBytes
    /\ ~download_carfax_files =>
          /\ carfax_files = <<>> /\ zip_entries = <<>>
          /\ pc # "download"
          /\ \A j \in DOMAIN trace : ~IsCarfaxGet(trace[j])

\* A finished run with one downloaded record and one whose download failed:
\* the ZIP holds the one entry.
C9_Witness ==
    /\ pc = "done" /\ Len(results) = 2
    /\ results[1].STATUS = "URL_ONLY"
    /\ results[2].STATUS = "OK_DOWNLOADED"
    /\ Len(zip_entries) = 1

\* Positions of the downloaded records.
DownloadedRecords == {i \in 1..Len(results) : results[i].STATUS = "OK_DOWNLOADED"}

\* Positions of the records downloaded under identifier v.
DownloadedAs(v) ==
    {i \in 1..Len(results) : results[i].VIN = v /\ results[i].STATUS = "OK_DOWNLOADED"}
Latest(S) == CHOOSE i \in S : \A j \in S : j <= i

\* C10: carfax_files, and the ZIP built from it, hold at most one file per
\* identifier, and the file kept for an identifier is the document (name
\* and bytes) of the last record in input order downloaded under it.
C10_ArchiveLastWriteWins ==
    /\ \A k, l \in 1..Len(carfax_files) :
          carfax_files[k].vin = carfax_files[l].vin => k = l
    /\ \A k \in 1..Len(carfax_files) :
          LET S == DownloadedAs(carfax_files[k].vin)
          IN  /\ S # {}
              /\ carfax_files[k].filename = results[Latest(S)].FILE_NAME
              /\ carfax_files[k].content = documents[Latest(S)]
    /\ pc = "done" =>
          /\ Len(zip_entries) = Cardinality({results[i].VIN : i \in DownloadedRecords})
          /\ \A k \in 1..Len(zip_entries) :
                /\ zip_entries[k].filename = carfax_files[k].filename
                /\ zip_entries[k].content = carfax_files[k].content

\* A finished run in which two records with one identifier were downloaded
\* with different documents; the ZIP holds one entry, the later document.
C10_Witness ==
    /\ pc = "done" /\ Len(results) = 2
    /\ results[1].VIN = results[2].VIN
    /\ results[1].STATUS = "OK_DOWNLOADED" /\ results[2].STATUS = "OK_DOWNLOADED"
    /\ documents[1] # documents[2]
    /\ Len(zip_entries) = 1
    /\ zip_entries[1].content = documents[2]

\* Positions of trace holding the pacing sleep of line 232.
PacingSleeps == {j \in DOMAIN trace : trace[j] = SleepEvent(PacingTenths)}

\* C11: the pacing delay is applied once after each fully processed record,
\* that is every record that passed validation and went through the primary
\* fetch, whatever its final status, and never to a record that terminates
\* before any network call.
C11_PacingAfterEveryFetchedRecord ==
    (BetweenRows /\ Len(results) > 0) =>
        IF \E j \in DOMAIN trace : IsPrimaryGet(trace[j])
        THEN /\ Cardinality(PacingSleeps) = 1
             /\ trace[Len(trace)] = SleepEvent(PacingTenths)
        ELSE PacingSleeps = {}

\* The columns of the uploaded table, by position.
InputColumn(k) ==
    [i \in 1..Len(df) |-> DfFrame(df, df_columns).rows[i][df_columns[k]]]

\* C12: the enriched table has the rows of the input in their order, every
\* original column with its original values, and exactly one appended
\* column, the resolved URL; so for every input schema, also one that already
\* has a column with the appended column's name.
C12_OneAppendedColumn ==
    pc = "done" =>
        /\ Len(merged_frame.rows) = Len(df)
        /\ merged_frame.columns = Append(df_columns, "CARFAX_URL")
        /\ \A k \in 1..Len(df_columns) : \A i \in 1..Len(df) :
               merged_frame.rows[i][merged_frame.columns[k]] = InputColumn(k)[i]
        /\ \A i \in 1..Len(df) : merged_frame.rows[i]["CARFAX_URL"] = merged[i]

\* Positions of trace holding a GET of the Carfax document.
CarfaxGets == {j \in DOMAIN trace : IsCarfaxGet(trace[j])}

\* C13: the document fetch is one best-effort attempt.  A row's trace holds
\* at most one GET of the document; it is there only when downloads were
\* requested, directly after the primary GET that succeeded, and it goes to
\* the resolved URL of a record with a target-found status; whether it
\* succeeded or failed, only the pacing sleep follows it and the row is over.
C13_SingleDocumentAttempt ==
    /\ Cardinality(CarfaxGets) <= 1
    /\ \A j \in CarfaxGets :
          /\ download_carfax_files
          /\ j > 1 /\ IsPrimaryGet(trace[j - 1]) /\ trace[j - 1].outcome = Ok
          /\ BetweenRows
          /\ Len(results) = idx
          /\ LastResultRecorded.STATUS =
                IF trace[j].outcome = Ok THEN "OK_DOWNLOADED" ELSE "URL_ONLY"
          /\ trace[j].url = LastResultRecorded.CARFAX_URL
          /\ trace[j].url = carfax_url
          /\ SubSeq(trace, j + 1, Len(trace)) = <<SleepEvent(PacingTenths)>>
    /\ pc = "download" => download_carfax_files /\ ~NoLink(resp)

\* A document GET failed after the primary fetch had needed a retry; the
\* record is URL_ONLY and the run went on to the end.
C13_Witness ==
    /\ pc = "done"
    /\ Cardinality(CarfaxGets) = 1
    /\ Cardinality(PrimaryFailed) = 1
    /\ \E j \in CarfaxGets : trace[j].outcome = <<"HTTPError 500">>
    /\ LastResultRecorded.STATUS = "URL_ONLY"

\* C14: normalization is idempotent: for every raw cell, normalizing the
\* normalized text again gives the same text.
C14_NormalizeIdempotent ==
    (idx > 0 \/ pc # "loop") =>
        normalize_url(StrCell(ebrochure_url)) = ebrochure_url

Statuses == {"ERROR", "NO_CARFAX_LINK", "OK_URL_ONLY", "OK_DOWNLOADED", "URL_ONLY"}

\* The run is over and has produced its tables: one result per row, each
\* with a terminal status, and the enriched table with one row per row.
RunCompleted ==
    /\ pc = "done"
    /\ Len(results) = Len(df)
    /\ \A i \in 1..Len(results) : results[i].STATUS \in Statuses
    /\ Len(merged) = Len(df)
    /\ Len(merged_frame.rows) = Len(df)

\* C15: the run always completes.  No row makes more than Retries primary
\* GETs or more than one document GET, and every run reaches the end of the
\* loop with one result of terminal status per row and with the enriched
\* table built, whatever the outcome of the rows.
C15_RunCompletes ==
    /\ [](Cardinality(PrimaryOk \cup PrimaryFailed) <= Retries /\ Cardinality(CarfaxGets) <= 1)
    /\ <>RunCompleted

\* A completed run of two rows that both failed: the first was rejected at
\* validation, the second used up its attempts of the primary fetch.
C15_Witness ==
    /\ RunCompleted
    /\ Len(df) = 2
    /\ outcomes = <<"invalid", "fetch_failed">>
    /\ Cardinality(PrimaryFailed) = Retries

\* C16: the status value alone identifies the kind of outcome: two records
\* with the same STATUS were recorded by the same branch of the row loop
\* (invalid URL, primary fetch failed, no target link, URL only, downloaded,
\* download failed).
C16_StatusIdentifiesOutcome ==
    \A i, j \in 1..Len(results) :
        results[i].STATUS = results[j].STATUS => outcomes[i] = outcomes[j]

\* C17: every record is internally consistent.  CARFAX_URL is not None
\* exactly when the status is a target-found one; FILE_NAME is not None
\* exactly when the status is OK_DOWNLOADED, and it is then the sanitized
\* identifier followed by the extension of the document fetched for the
\* record, the name under which the record's document was put in
\* carfax_files; ERROR_MESSAGE is None exactly for OK_URL_ONLY (reported only
\* with downloads disabled) and OK_DOWNLOADED.
C17_RecordConsistent ==
    \A i \in 1..Len(results) :
        LET r == results[i]
        IN  /\ r.CARFAX_URL # None <=> r.STATUS \in TargetFound
            /\ r.FILE_NAME # None <=> r.STATUS = "OK_DOWNLOADED"
            /\ r.STATUS = "OK_DOWNLOADED" =>
                  /\ r.FILE_NAME = safe_vin(r.VIN) \o
                        <<IF documents[i] = "pdf-bytes" THEN ".pdf" ELSE ".html">>
                  /\ i = Latest(DownloadedAs(r.VIN)) =>
                        \E k \in 1..Len(carfax_files) :
                            /\ carfax_files[k].vin = r.VIN
                            /\ carfax_files[k].filename = r.FILE_NAME
            /\ r.ERROR_MESSAGE = None <=> r.STATUS \in {"OK_URL_ONLY", "OK_DOWNLOADED"}
            /\ r.STATUS = "OK_URL_ONLY" => ~download_carfax_files

\* A run recorded a failed download and then a PDF downloaded under an
\* identifier that needs sanitizing.
C17_Witness ==
    /\ pc = "done" /\ Len(results) = 2
    /\ results[1].STATUS = "URL_ONLY"
    /\ results[2].STATUS = "OK_DOWNLOADED"
    /\ results[2].VIN = <<"A", "#">>
    /\ results[2].FILE_NAME = <<"A", "_", ".pdf">>

\* C18: a record with a target-found status has a non-empty CARFAX_URL: an
\* href that is empty or only whitespace is treated like a missing anchor,
\* so no record reports an empty text as resolved and no document GET is
\* attempted for an empty URL.
C18_ResolvedUrlNotEmpty ==
    /\ \A i \in 1..Len(results) :
          results[i].STATUS \in TargetFound => results[i].CARFAX_URL \notin {None, <<>>}
    /\ \A j \in CarfaxGets : trace[j].url # <<>>
    /\ pc = "download" => carfax_url # <<>>

\* C19: every file name written to the ZIP is written once, also when two
\* different identifiers that were downloaded sanitize to the same name.
C19_ArchiveNamesUnique ==
    \A k, l \in 1..Len(zip_entries) :
        zip_entries[k].filename = zip_entries[l].filename => k = l

\* The key line 265 looks up for row i (from 1) of the uploaded table.
JoinKey(i) == StrOf(df[i].vin)

\* C20: the identifier under which a row's result is recorded is the key the
\* join looks up for that row; a row without identifier is recorded as
\* row_<index>, and when its record has a target-found status the row's
\* cell of the enriched table holds the record's CARFAX_URL.
C20_RecordKeyIsJoinKey ==
    \A i \in 1..Len(results) :
        /\ results[i].VIN = JoinKey(i)
        /\ df[i].vin.kind = "nan" =>
              /\ results[i].VIN = <<"r", "o", "w", "_", ToString(i - 1)>>
              /\ (pc = "done" /\ results[i].STATUS \in TargetFound) =>
                    merged[i] = results[i].CARFAX_URL
====
